---- MODULE Spec2Model ----
(***************************************************************************)
(* KZG polynomial commitments of rust-kzg: the arkworks backend            *)
(* (src/arkworks/src/kzg_types.rs) and the from-scratch backend            *)
(* (src/from-scratch/src/kzg_types.rs).                                    *)
(*                                                                         *)
(* Scaling.  The scalar field is the prime field of order Modulus, a small *)
(* prime with 2-adicity 4 standing for the BLS12-381 scalar field.  G1 and *)
(* G2 are cyclic groups of that prime order, so a point [k]_1 or [k]_2 is  *)
(* represented by its scalar k: addition of points is addition of scalars, *)
(* scalar multiplication is multiplication, and the pairing equation       *)
(* e(a1,a2) = e(b1,b2) is a1*a2 = b1*b2.  A field element is stored in     *)
(* LIMBS limbs of LIMB_BASE values and encoded in BYTES_PER_FIELD_ELEMENT  *)
(* bytes of BYTE_BASE values, BYTES_PER_LIMB bytes to a limb, in the       *)
(* layout of the source (4 limbs of 64 bits, 32 bytes).                    *)
(*                                                                         *)
(* Sequences of the source are 0-based; At(s, i) reads index i.            *)
(***************************************************************************)
EXTENDS Integers, Sequences, FiniteSets, TLC

VARIABLES
    pc,       \* what the caller did last: "ready" or the name of the last call
    ks,       \* the LKZGSettings every call reads
    p,        \* the polynomial of the scenario (PolyData.coeffs)
    x,        \* the evaluation point passed to the proof calls
    n,        \* the batch size passed to the last multi-point call
    ys,       \* the values passed to check_proof_multi
    y,        \* the value passed to check_proof_single
    com,      \* result of commit_to_poly(p)
    proof,    \* result of compute_proof_single / compute_proof_multi
    verdict,  \* result of check_proof_single / check_proof_multi
    p2,       \* the polynomial committed before p
    com2,     \* result of commit_to_poly(p2)
    com_sum,  \* result of commit_to_poly(p + p2)
    bytes,    \* the byte string handed to ArkFr::from_bytes
    fr_in,    \* the field element ArkFr::to_bytes encoded, or NoFr
    fr_out,   \* result of ArkFr::from_bytes(bytes)
    poly,     \* coeffs of the from-scratch Poly object
    orig,     \* coeffs the Poly object was created with
    hist,     \* the mutating calls made on the Poly object, in order
    val,      \* result of Poly::eval
    lfs_scale, \* the scale passed to the arkworks LFFTSettings::new, or NoScale
    lfs,      \* result of LFFTSettings::new(lfs_scale)
    ffs_scale, \* the scale passed to the from-scratch FFTSettings::new, or NoScale
    ffs,      \* result of FFTSettings::new(ffs_scale)
    div_self, \* coeffs of the PolyData that div was called on (the dividend)
    div_x,    \* coeffs of the PolyData passed to div (the divisor)
    div_out   \* result of PolyData::div

kzgVars == <<p, x, n, ys, y, com, proof, verdict, p2, com2, com_sum>>
frVars == <<bytes, fr_in, fr_out>>
polyVars == <<poly, orig, hist, val>>
fftVars == <<lfs_scale, lfs, ffs_scale, ffs>>
divVars == <<div_self, div_x, div_out>>
vars == <<pc, ks, kzgVars, frVars, polyVars, fftVars, divVars>>

-----------------------------------------------------------------------------
(* Bounds of the model *)

\* polynomials have 0..MaxLen coefficients
MaxLen == 4
\* coefficients of the polynomials drawn as inputs are 0..MaxCoeff
MaxCoeff == 1
\* the secret s of the trusted setup is drawn from 2..MaxSecret (0 and 1 give
\* a degenerate SRS)
MaxSecret == 3
\* number of G1 powers in the SRS (the commit capacity m)
G1Len == 3
\* scale of the FFT domain of the settings (max_width = 2^FftScale)
FftScale == 2
\* batch sizes n passed to the multi-point calls are 0..MaxN
MaxN == 4
\* evaluation points passed to the multi-point calls are 0..MaxX
MaxX == 1
\* byte strings handed to from_bytes have 0..MaxBytes bytes
MaxBytes == 9
\* number of scale/unscale calls made on one Poly object
MaxOps == 2
\* scales passed to the FFT settings constructors are 0..MaxScale
MaxScale == 6
\* the interpolation scenarios commit polynomials of 0..MaxInterpLen
\* coefficients and use the evaluation points 0..MaxPoint
MaxInterpLen == 2
MaxPoint == 3
\* the polynomials handed to div are empty or have a number of coefficients
\* within MaxDelta of the crossover threshold
MaxDelta == 2

-----------------------------------------------------------------------------
(* Results: Result<T, String>, or the call aborting (a panic) *)

Ok(v) == [tag |-> "Ok", val |-> v]
Err(msg) == [tag |-> "Err", err |-> msg]
Panic(msg) == [tag |-> "Panic", err |-> msg]
None == [tag |-> "None"]

IsOk(r) == r.tag = "Ok"
IsErr(r) == r.tag = "Err"
IsPanic(r) == r.tag = "Panic"

\* the error kinds of the interface, by the messages the code returns
IsLengthError(r) == IsErr(r) /\ r.err = "Polynomial is longer than secret g1"
IsEmptyInputError(r) == IsErr(r) /\ r.err = "Polynomial must not be empty"
IsDomainError(r) ==
    IsErr(r) /\ r.err \in {"n must be a power of two", "n is not a power of two"}

At(s, i) == s[i + 1]

-----------------------------------------------------------------------------
(* The scalar field *)

Modulus == 17
FrSet == 0..(Modulus - 1)

\* the value a panicking unwrap stands for in an expression
PANIC == 0 - 1

RECURSIVE IntPow(_, _)
\* b^e in the integers
IntPow(b, e) == IF e = 0 THEN 1 ELSE b * IntPow(b, e - 1)

RECURSIVE FieldPow(_, _)
FieldPow(a, e) == IF e = 0 THEN 1 ELSE (a * FieldPow(a, e - 1)) % Modulus

\* ark_ff Field::inverse: None at zero
FieldInverse(a) ==
    IF a % Modulus = 0 THEN [some |-> FALSE]
    ELSE [some |-> TRUE, v |-> CHOOSE b \in FrSet : (a * b) % Modulus = 1]

ArkFr_zero == 0
ArkFr_one == 1
ArkFr_mul(a, b) == (a * b) % Modulus
ArkFr_add(a, b) == (a + b) % Modulus
ArkFr_sub(a, b) == (a + Modulus - b) % Modulus
ArkFr_negate(a) == (Modulus - a) % Modulus
ArkFr_pow(a, e) == FieldPow(a, e)
ArkFr_inverse(a) ==
    LET o == FieldInverse(a) IN IF o.some THEN o.v ELSE PANIC

-----------------------------------------------------------------------------
(* The curve groups, by the scalar of each point *)

G1_IDENTITY == 0
G1_GENERATOR == 1
G2_GENERATOR == 1

ArkG1_default == G1_IDENTITY
ArkG1_add(a, b) == (a + b) % Modulus
ArkG1_sub(a, b) == (a + Modulus - b) % Modulus
ArkG1_mul(a, k) == (a * k) % Modulus
ArkG2_sub(a, b) == (a + Modulus - b) % Modulus
ArkG2_mul(a, k) == (a * k) % Modulus

\* e(a1, a2) == e(b1, b2)
pairings_verify(a1, a2, b1, b2) == (a1 * a2) % Modulus = (b1 * b2) % Modulus

\* out = sum of scalars[i] * points[i] for i < len
RECURSIVE g1_linear_combination(_, _, _)
g1_linear_combination(points, scalars, len) ==
    IF len = 0 THEN ArkG1_default
    ELSE ArkG1_add(g1_linear_combination(points, scalars, len - 1),
                   ArkG1_mul(At(points, len - 1), At(scalars, len - 1)))

-----------------------------------------------------------------------------
(* FFT settings *)

RECURSIVE Pow2(_)
Pow2(k) == IF k = 0 THEN 1 ELSE 2 * Pow2(k - 1)

\* usize::is_power_of_two
is_power_of_two(m) == m > 0 /\ \E k \in 0..m : Pow2(k) = m

\* the table of primitive 2^scale-th roots of unity of the field, by scale
SCALE2_ROOT_OF_UNITY == <<1, 16, 13, 9, 3>>

\* [root^0 .. root^width], an error unless the powers close at width exactly
expand_root_of_unity(root, width) ==
    IF /\ FieldPow(root, width) = 1
       /\ \A i \in 1..(width - 1) : FieldPow(root, i) # 1
    THEN Ok([i \in 1..(width + 1) |-> FieldPow(root, i - 1)])
    ELSE Err("Root of unity multiplied for too long")

RECURSIVE reverse_bits(_, _)
reverse_bits(i, bits) ==
    IF bits = 0 THEN 0
    ELSE (i % 2) * Pow2(bits - 1) + reverse_bits(i \div 2, bits - 1)

log2_pow2(m) == CHOOSE k \in 0..m : Pow2(k) = m

\* kzg::common_utils::reverse_bit_order
reverse_bit_order(vals) ==
    IF ~is_power_of_two(Len(vals))
    THEN Err("Length must be a power of 2")
    ELSE Ok([i \in 1..Len(vals) |->
                At(vals, reverse_bits(i - 1, log2_pow2(Len(vals))))])

Reverse(s) == [i \in 1..Len(s) |-> s[Len(s) + 1 - i]]

LFFTSettings_new(scale) ==
    IF scale >= Len(SCALE2_ROOT_OF_UNITY)
    THEN Err("Scale is expected to be within root of unity matrix row size")
    ELSE
        LET max_width == Pow2(scale)
            root_of_unity == At(SCALE2_ROOT_OF_UNITY, scale)
            expanded == expand_root_of_unity(root_of_unity, max_width)
        IN  IF ~IsOk(expanded) THEN expanded
            ELSE
                LET popped == SubSeq(expanded.val, 1, max_width)
                    rbo == reverse_bit_order(popped)
                IN  IF ~IsOk(rbo) THEN rbo
                    ELSE Ok([max_width |-> max_width,
                             root_of_unity |-> root_of_unity,
                             expanded_roots_of_unity |-> expanded.val,
                             reverse_roots_of_unity |-> Reverse(expanded.val),
                             roots_of_unity |-> rbo.val])

RECURSIVE SumTo(_, _)
\* sum over j < m of f[j + 1], in the field
SumTo(f, m) == IF m = 0 THEN 0 ELSE (SumTo(f, m - 1) + f[m]) % Modulus

\* forward or inverse transform of data over the domain of its length
fft_fr(fs, data, inverse) ==
    IF Len(data) > fs.max_width
    THEN Err("Supplied list is longer than the available max width")
    ELSE IF ~is_power_of_two(Len(data))
    THEN Err("A list with power-of-two length expected")
    ELSE
        LET len == Len(data)
            stride == fs.max_width \div len
            roots == IF inverse THEN fs.reverse_roots_of_unity
                     ELSE fs.expanded_roots_of_unity
            term(i) == [j \in 1..len |->
                ArkFr_mul(data[j],
                          At(roots, ((i * (j - 1) * stride) % fs.max_width)))]
            inv_len == ArkFr_inverse(len % Modulus)
        IN  Ok([i \in 1..len |->
                IF inverse THEN ArkFr_mul(SumTo(term(i - 1), len), inv_len)
                ELSE SumTo(term(i - 1), len)])

-----------------------------------------------------------------------------
(* PolyData *)

\* Horner's method, from the highest coefficient down
RECURSIVE eval_poly_from(_, _, _, _)
eval_poly_from(coeffs, xx, i, acc) ==
    IF i = 0 THEN acc
    ELSE eval_poly_from(coeffs, xx, i - 1,
                        ArkFr_add(ArkFr_mul(acc, xx), coeffs[i]))

eval_poly(coeffs, xx) == eval_poly_from(coeffs, xx, Len(coeffs), ArkFr_zero)

\* schoolbook long division: quotient index i from the top down
RECURSIVE long_div_from(_, _, _, _)
long_div_from(a, b, i, q) ==
    IF i < 0 THEN q
    ELSE
        LET lead == At(b, Len(b) - 1)
            qi == ArkFr_mul(At(a, i + Len(b) - 1), ArkFr_inverse(lead))
            a2 == [k \in 1..Len(a) |->
                     IF k - 1 >= i /\ k - 1 < i + Len(b)
                     THEN ArkFr_sub(a[k], ArkFr_mul(qi, At(b, k - 1 - i)))
                     ELSE a[k]]
        IN  long_div_from(a2, b, i - 1, [q EXCEPT ![i + 1] = qi])

poly_long_div(dividend, divisor) ==
    IF Len(divisor) = 0 THEN Err("Dividing by zero")
    ELSE IF At(divisor, Len(divisor) - 1) = ArkFr_zero THEN Err("Dividing by zero")
    ELSE IF Len(dividend) < Len(divisor) THEN Ok(<<>>)
    ELSE
        LET out_len == Len(dividend) - Len(divisor) + 1
        IN  Ok(long_div_from(dividend, divisor, out_len - 1,
                             [i \in 1..out_len |-> ArkFr_zero]))

\* division by power-series inversion: the same quotient as long division
poly_fast_div(dividend, divisor) == poly_long_div(dividend, divisor)

FAST_DIV_THRESHOLD == 128

\* mutant: `x.len() <= 128`, which sends a divisor of 128 coefficients to the
\* long division
PolyData_div_callee_le(self, divisor) ==
    IF Len(divisor) >= Len(self) \/ Len(divisor) <= FAST_DIV_THRESHOLD
    THEN "poly_long_div"
    ELSE "poly_fast_div"

\* the routine PolyData::div hands the division to
PolyData_div_callee(self, divisor) ==
    IF Len(divisor) >= Len(self) \/ Len(divisor) < FAST_DIV_THRESHOLD
    THEN "poly_long_div"
    ELSE "poly_fast_div"

PolyData_div(self, divisor) ==
    IF PolyData_div_callee(self, divisor) = "poly_long_div"
    THEN poly_long_div(self, divisor)
    ELSE poly_fast_div(self, divisor)

-----------------------------------------------------------------------------
(* LKZGSettings *)

\* the structured reference string of secret s: [s^i]_1 for i < m, [s^i]_2 for i <= w
generate_trusted_setup(s, m, w) ==
    [secret_g1 |-> [i \in 1..m |-> ArkG1_mul(G1_GENERATOR, FieldPow(s, i - 1))],
     secret_g2 |-> [i \in 1..(w + 1) |-> ArkG2_mul(G2_GENERATOR, FieldPow(s, i - 1))]]

LKZGSettings_new(secret_g1, secret_g2, length, fft_settings) ==
    Ok([secret_g1 |-> secret_g1, secret_g2 |-> secret_g2, fs |-> fft_settings])

\* mutant: a polynomial that fills the SRS is rejected too
commit_to_poly_full_rejected(self, coeffs) ==
    IF Len(coeffs) >= Len(self.secret_g1)
    THEN Err("Polynomial is longer than secret g1")
    ELSE Ok(g1_linear_combination(self.secret_g1, coeffs, Len(coeffs)))

\* mutant: the accumulator starts at the generator, not at the default point
commit_to_poly_from_generator(self, coeffs) ==
    IF Len(coeffs) > Len(self.secret_g1)
    THEN Err("Polynomial is longer than secret g1")
    ELSE Ok(ArkG1_add(G1_GENERATOR,
                      g1_linear_combination(self.secret_g1, coeffs, Len(coeffs))))

commit_to_poly(self, coeffs) ==
    IF Len(coeffs) > Len(self.secret_g1)
    THEN Err("Polynomial is longer than secret g1")
    ELSE Ok(g1_linear_combination(self.secret_g1, coeffs, Len(coeffs)))

\* mutant: the divisor's constant term without its sign
single_divisor_0_unsigned(xx) == xx

\* `-(x0^n)`, where `n` is `1`
single_divisor_0(xx) == ArkFr_negate(xx)

\* mutant: for i in (2..out_coeffs.len()).rev(), which leaves out_coeffs[0]
\* as it was copied
RECURSIVE single_quotient_from_stops_early(_, _, _)
single_quotient_from_stops_early(out_coeffs, divisor_0, i) ==
    IF i < 2 THEN out_coeffs
    ELSE
        LET tmp == ArkFr_mul(At(out_coeffs, i), divisor_0)
        IN  single_quotient_from_stops_early(
                [out_coeffs EXCEPT ![i] = ArkFr_sub(At(out_coeffs, i - 1), tmp)],
                divisor_0, i - 1)

\* for i in (1..out_coeffs.len()).rev()
RECURSIVE single_quotient_from(_, _, _)
single_quotient_from(out_coeffs, divisor_0, i) ==
    IF i < 1 THEN out_coeffs
    ELSE
        LET tmp == ArkFr_mul(At(out_coeffs, i), divisor_0)
        IN  single_quotient_from(
                [out_coeffs EXCEPT ![i] = ArkFr_sub(At(out_coeffs, i - 1), tmp)],
                divisor_0, i - 1)

\* the quotient `q` the call commits: out_coeffs after the loop
single_quotient(coeffs, xx) ==
    LET divisor_0 == single_divisor_0(xx)
        out_coeffs == SubSeq(coeffs, 2, Len(coeffs))
    IN  single_quotient_from(out_coeffs, divisor_0, Len(out_coeffs) - 1)

compute_proof_single(self, coeffs, xx) ==
    IF Len(coeffs) = 0 THEN Err("Polynomial must not be empty")
    ELSE commit_to_poly(self, single_quotient(coeffs, xx))

check_proof_single(self, cm, pf, xx, yy) ==
    IF Len(self.secret_g2) < 2 THEN Panic("index out of bounds")
    ELSE
        LET x_g2 == ArkG2_mul(G2_GENERATOR, xx)
            s_minus_x == ArkG2_sub(At(self.secret_g2, 1), x_g2)
            y_g1 == ArkG1_mul(G1_GENERATOR, yy)
            commitment_minus_y == ArkG1_sub(cm, y_g1)
        IN  Ok(pairings_verify(commitment_minus_y, G2_GENERATOR, pf, s_minus_x))

\* x^n - x0^n: coefficient 0 is -(x0^n), coefficient n is 1, zeros between
multi_divisor(xx, nn) ==
    [i \in 1..(nn + 1) |->
        IF i = 1 THEN ArkFr_negate(ArkFr_pow(xx, nn))
        ELSE IF i = nn + 1 THEN ArkFr_one
        ELSE ArkFr_zero]

\* mutant: n & (n - 1) != 0, which lets n = 0 through
multi_n_rejected_nonzero(nn) == nn # 0 /\ ~is_power_of_two(nn)

\* if !n.is_power_of_two()
multi_n_rejected(nn) == ~is_power_of_two(nn)

compute_proof_multi(self, coeffs, xx, nn) ==
    IF Len(coeffs) = 0 THEN Err("Polynomial must not be empty")
    ELSE IF multi_n_rejected(nn) THEN Err("n must be a power of two")
    ELSE
        LET q == PolyData_div(coeffs, multi_divisor(xx, nn))
        IN  IF ~IsOk(q) THEN q ELSE commit_to_poly(self, q.val)

\* mutant: for i in 1..n: inv_x_pow *= inv_x; interp.coeffs[i] *= inv_x_pow
RECURSIVE multi_unshift_from_early(_, _, _, _, _)
multi_unshift_from_early(coeffs, inv_x, inv_x_pow, i, nn) ==
    IF i >= nn THEN [coeffs |-> coeffs, inv_x_pow |-> inv_x_pow]
    ELSE
        LET pw == ArkFr_mul(inv_x_pow, inv_x)
        IN  multi_unshift_from_early(
                [coeffs EXCEPT ![i + 1] = ArkFr_mul(At(coeffs, i), pw)],
                inv_x, pw, i + 1, nn)

\* for i in 1..n: interp.coeffs[i] *= inv_x_pow; inv_x_pow *= inv_x
RECURSIVE multi_unshift_from(_, _, _, _, _)
multi_unshift_from(coeffs, inv_x, inv_x_pow, i, nn) ==
    IF i >= nn THEN [coeffs |-> coeffs, inv_x_pow |-> inv_x_pow]
    ELSE multi_unshift_from(
            [coeffs EXCEPT ![i + 1] = ArkFr_mul(At(coeffs, i), inv_x_pow)],
            inv_x, ArkFr_mul(inv_x_pow, inv_x), i + 1, nn)

\* `interp` and `inv_x_pow` after the loop, for a call that reaches it
check_proof_multi_interp(self, xx, yys, nn) ==
    LET inv_x == ArkFr_inverse(xx)
    IN  multi_unshift_from(fft_fr(self.fs, yys, TRUE).val, inv_x, inv_x, 1, nn)

\* `x_pow`, the value multiplied into the G2 generator
check_proof_multi_x_pow(self, xx, yys, nn) ==
    ArkFr_inverse(check_proof_multi_interp(self, xx, yys, nn).inv_x_pow)

\* `xn_minus_yn`, the second pairing argument
check_proof_multi_xn_minus_yn(self, xx, yys, nn) ==
    LET xn2 == ArkG2_mul(G2_GENERATOR, check_proof_multi_x_pow(self, xx, yys, nn))
    IN  ArkG2_sub(At(self.secret_g2, nn), xn2)

check_proof_multi(self, cm, pf, xx, yys, nn) ==
    IF multi_n_rejected(nn) THEN Err("n is not a power of two")
    ELSE
        LET fft == fft_fr(self.fs, yys, TRUE)
            inv_x == ArkFr_inverse(xx)
        IN  IF ~IsOk(fft) THEN fft
            ELSE IF inv_x = PANIC
            THEN Panic("called Option::unwrap() on a None value")
            ELSE IF Len(fft.val) < nn
            THEN Panic("index out of bounds")
            ELSE
                LET un == check_proof_multi_interp(self, xx, yys, nn)
                    is1 == commit_to_poly(self, un.coeffs)
                IN  IF nn >= Len(self.secret_g2)
                    THEN Panic("index out of bounds")
                    ELSE IF ~IsOk(is1)
                    THEN Panic("called Result::unwrap() on an Err value")
                    ELSE
                        LET xn_minus_yn ==
                                check_proof_multi_xn_minus_yn(self, xx, yys, nn)
                            commit_minus_interp == ArkG1_sub(cm, is1.val)
                        IN  Ok(pairings_verify(commit_minus_interp, G2_GENERATOR,
                                               pf, xn_minus_yn))

-----------------------------------------------------------------------------
(* ArkFr byte encoding *)

LIMBS == 4
\* values of a limb (u64)
LIMB_BASE == 4
\* values of a byte (u8)
BYTE_BASE == 2
\* bytes of a limb
BYTES_PER_LIMB == 2
BYTES_PER_FIELD_ELEMENT == 8

\* the limbs of the modulus, least significant first
BLS12_381_MOD_256 == <<1, 0, 1, 0>>

RECURSIVE be_value(_, _)
\* the integer a big-endian digit string denotes in the given base
be_value(digits, base) ==
    IF Len(digits) = 0 THEN 0
    ELSE be_value(SubSeq(digits, 1, Len(digits) - 1), base) * base
            + digits[Len(digits)]

\* u64::from_be_bytes
bytes_be_to_uint64(inp) == be_value(inp, BYTE_BASE)

\* the integer of a BigInteger256: limbs least significant first
bigint_value(limbs) == be_value(Reverse(limbs), LIMB_BASE)

\* u64::overflowing_sub: the borrow
overflowing_sub_overflow(a, b) == a < b

\* bool as u64
as_u64(b) == IF b THEN 1 ELSE 0

\* mutant: the borrow of the lower limbs is not carried into the top limb
bigint_check_mod_256_no_borrow(a) ==
    overflowing_sub_overflow(At(a, 3), At(BLS12_381_MOD_256, 3))

bigint_check_mod_256(a) ==
    LET o0 == overflowing_sub_overflow(At(a, 0), At(BLS12_381_MOD_256, 0))
        o1 == overflowing_sub_overflow(At(a, 1), At(BLS12_381_MOD_256, 1) + as_u64(o0))
        o2 == overflowing_sub_overflow(At(a, 2), At(BLS12_381_MOD_256, 2) + as_u64(o1))
        o3 == overflowing_sub_overflow(At(a, 3), At(BLS12_381_MOD_256, 3) + as_u64(o2))
    IN  o3

\* &bytes[lo..hi]
Slice(s, lo, hi) == SubSeq(s, lo + 1, hi)

\* mutant: the limbs read in the order of the bytes
from_bytes_storage_forward(bs) ==
    [i \in 1..LIMBS |->
        bytes_be_to_uint64(Slice(bs, (i - 1) * BYTES_PER_LIMB, i * BYTES_PER_LIMB))]

\* storage = [bytes[24..32], bytes[16..24], bytes[8..16], bytes[0..8]]
from_bytes_storage(bs) ==
    [i \in 1..LIMBS |->
        bytes_be_to_uint64(Slice(bs, (LIMBS - i) * BYTES_PER_LIMB,
                                     (LIMBS - i + 1) * BYTES_PER_LIMB))]

\* Fr::new(big_int): the field element of the integer
Fr_new(limbs) == bigint_value(limbs) % Modulus

\* Fr::into: the limbs of the canonical integer, least significant first
Fr_into_bigint(a) ==
    [i \in 1..LIMBS |-> (a \div IntPow(LIMB_BASE, i - 1)) % LIMB_BASE]

ArkFr_from_bytes(bs) ==
    IF Len(bs) # BYTES_PER_FIELD_ELEMENT
    THEN Err("Invalid byte length")
    ELSE
        LET storage == from_bytes_storage(bs)
            is_zero == \A i \in 1..LIMBS : storage[i] = 0
        IN  IF ~is_zero /\ ~bigint_check_mod_256(storage)
            THEN Err("Invalid scalar")
            ELSE Ok(Fr_new(storage))

\* u64::to_le_bytes
uint64_to_le_bytes(v) ==
    [i \in 1..BYTES_PER_LIMB |-> (v \div IntPow(BYTE_BASE, i - 1)) % BYTE_BASE]

RECURSIVE to_bytes_le(_)
\* BigInteger::to_bytes_le: the limbs in order, each least significant byte first
to_bytes_le(limbs) ==
    IF Len(limbs) = 0 THEN <<>>
    ELSE uint64_to_le_bytes(limbs[1]) \o to_bytes_le(Tail(limbs))

\* BigInteger::to_bytes_be
to_bytes_be(limbs) == Reverse(to_bytes_le(limbs))

ArkFr_to_bytes(a) == to_bytes_be(Fr_into_bigint(a))

-----------------------------------------------------------------------------
(* The from-scratch backend: Fr and Poly *)

Fr_from_u64(v) == v % Modulus
Fr_zero == Fr_from_u64(0)
Fr_one == Fr_from_u64(1)
Fr_is_zero(a) == a = 0
Fr_mul(a, b) == (a * b) % Modulus
Fr_add(a, b) == (a + b) % Modulus
\* blst_fr_inverse: a^(r-2), zero at zero
Fr_inverse(a) == FieldPow(a, Modulus - 2)

SCALE_FACTOR == 5

\* loop { ret = ret * x + coeffs[i]; if i == 0 { break } i -= 1 }
RECURSIVE Poly_eval_loop(_, _, _, _)
Poly_eval_loop(coeffs, xx, ret, i) ==
    LET temp == Fr_mul(ret, xx)
        ret2 == Fr_add(temp, At(coeffs, i))
    IN  IF i = 0 THEN ret2 ELSE Poly_eval_loop(coeffs, xx, ret2, i - 1)

\* With one coefficient and x nonzero, `len() - 2` underflows: the checked
\* build aborts on the subtraction, the unchecked one on coeffs[usize::MAX].
Poly_eval(coeffs, xx) ==
    IF Len(coeffs) = 0 THEN Ok(Fr_zero)
    ELSE IF Fr_is_zero(xx) THEN Ok(At(coeffs, 0))
    ELSE IF Len(coeffs) - 2 < 0 THEN Panic("attempt to subtract with overflow")
    ELSE Ok(Poly_eval_loop(coeffs, xx, At(coeffs, Len(coeffs) - 1),
                           Len(coeffs) - 2))

\* for i in 0..len: factor_power *= factor; coeffs[i] *= factor_power
RECURSIVE Poly_scale_loop(_, _, _, _)
Poly_scale_loop(coeffs, factor, factor_power, i) ==
    IF i >= Len(coeffs) THEN coeffs
    ELSE
        LET fp == Fr_mul(factor_power, factor)
        IN  Poly_scale_loop([coeffs EXCEPT ![i + 1] = Fr_mul(At(coeffs, i), fp)],
                            factor, fp, i + 1)

\* for i in 0..len: coeffs[i] *= factor_power; factor_power *= factor
RECURSIVE Poly_scale_loop_late(_, _, _, _)
Poly_scale_loop_late(coeffs, factor, factor_power, i) ==
    IF i >= Len(coeffs) THEN coeffs
    ELSE Poly_scale_loop_late(
            [coeffs EXCEPT ![i + 1] = Fr_mul(At(coeffs, i), factor_power)],
            factor, Fr_mul(factor_power, factor), i + 1)

Poly_scale(coeffs) ==
    LET scale_factor == Fr_from_u64(SCALE_FACTOR)
        inv_factor == Fr_inverse(scale_factor)
    IN  Poly_scale_loop(coeffs, inv_factor, Fr_one, 0)

\* mutant: the power is advanced after the coefficient is multiplied
Poly_unscale_late(coeffs) ==
    Poly_scale_loop_late(coeffs, Fr_from_u64(SCALE_FACTOR), Fr_one, 0)

Poly_unscale(coeffs) ==
    LET scale_factor == Fr_from_u64(SCALE_FACTOR)
    IN  Poly_scale_loop(coeffs, scale_factor, Fr_one, 0)

\* mutant: `max_scale > SCALE2_ROOT_OF_UNITY.len()`, so that the scale one
\* past the table reaches the table lookup and aborts there
FFTSettings_from_scale_one_past(max_scale) ==
    IF max_scale > Len(SCALE2_ROOT_OF_UNITY)
    THEN Err("Scale is expected to be within root of unity matrix row size")
    ELSE IF max_scale >= Len(SCALE2_ROOT_OF_UNITY)
    THEN Panic("index out of bounds")
    ELSE
        LET max_width == Pow2(max_scale)
            root_of_unity == At(SCALE2_ROOT_OF_UNITY, max_scale)
            expanded == expand_root_of_unity(root_of_unity, max_width)
        IN  IF ~IsOk(expanded)
            THEN Panic("called Result::unwrap() on an Err value")
            ELSE Ok([max_width |-> max_width,
                     root_of_unity |-> root_of_unity,
                     expanded_roots_of_unity |-> expanded.val,
                     reverse_roots_of_unity |-> Reverse(expanded.val)])

\* FFTSettings::from_scale: the roots are expanded with `.unwrap()`
FFTSettings_from_scale(max_scale) ==
    IF max_scale >= Len(SCALE2_ROOT_OF_UNITY)
    THEN Err("Scale is expected to be within root of unity matrix row size")
    ELSE
        LET max_width == Pow2(max_scale)
            root_of_unity == At(SCALE2_ROOT_OF_UNITY, max_scale)
            expanded == expand_root_of_unity(root_of_unity, max_width)
        IN  IF ~IsOk(expanded)
            THEN Panic("called Result::unwrap() on an Err value")
            ELSE Ok([max_width |-> max_width,
                     root_of_unity |-> root_of_unity,
                     expanded_roots_of_unity |-> expanded.val,
                     reverse_roots_of_unity |-> Reverse(expanded.val)])

FFTSettings_new(scale) == FFTSettings_from_scale(scale)

-----------------------------------------------------------------------------
(* The callers' inputs *)

Polys == UNION {[1..l -> 0..MaxCoeff] : l \in 0..MaxLen}
Secrets == 2..MaxSecret
BatchSizes == 0..MaxN
MultiPoints == 0..MaxX
ByteStrings == UNION {[1..l -> 0..(BYTE_BASE - 1)] : l \in 0..MaxBytes}
Scales == 0..MaxScale
InterpPolys == UNION {[1..l -> 0..MaxCoeff] : l \in 0..MaxInterpLen}
InterpPoints == 0..MaxPoint

DivLens ==
    {0} \cup ((FAST_DIV_THRESHOLD - MaxDelta)..(FAST_DIV_THRESHOLD + MaxDelta))
\* len coefficients: c0 at index 0, lead at the top, zeros between
Sparse(len, c0, lead) ==
    [i \in 1..len |-> IF i = len THEN lead ELSE IF i = 1 THEN c0 ELSE ArkFr_zero]
DivPolys ==
    {Sparse(len, c0, lead) : len \in DivLens, c0 \in 0..MaxCoeff, lead \in 0..MaxCoeff}

\* ys[i] = p.eval(x * w^i) for i < m, w the domain's m-th root of unity
coset_evals(self, coeffs, xx, m) ==
    [i \in 1..m |->
        eval_poly(coeffs,
                  ArkFr_mul(xx, At(self.fs.expanded_roots_of_unity,
                                   (i - 1) * (self.fs.max_width \div m))))]

\* vals with the value at index i replaced by a different field element
Perturbed(vals) ==
    {[vals EXCEPT ![i] = ArkFr_add(vals[i], 1)] : i \in 1..Len(vals)}

\* the values a caller hands to check_proof_multi with batch size nn: the
\* evaluations over the coset of nn points, one of them perturbed, or a list
\* of another length
YsInputs(self, coeffs, xx, nn) ==
    LET full == coset_evals(self, coeffs, xx, self.fs.max_width)
        good == IF is_power_of_two(nn) /\ nn <= self.fs.max_width
                THEN {coset_evals(self, coeffs, xx, nn)}
                ELSE {}
    IN  good \cup UNION {Perturbed(v) : v \in good}
             \cup {SubSeq(full, 1, k) : k \in 0..Len(full)}
             \cup {full \o <<ArkFr_zero>>}

-----------------------------------------------------------------------------
(* The state machine: a caller's calls on settings built once *)

NoFr == 0 - 1
NoScale == 0 - 1

Init ==
    /\ pc = "ready"
    /\ \E s \in Secrets :
        LET fs == LFFTSettings_new(FftScale).val
            srs == generate_trusted_setup(s, G1Len, fs.max_width)
        IN  ks = LKZGSettings_new(srs.secret_g1, srs.secret_g2, G1Len, fs).val
    /\ p = <<>> /\ x = 0 /\ n = 0 /\ ys = <<>> /\ y = 0
    /\ com = None /\ proof = None /\ verdict = None
    /\ p2 = <<>> /\ com2 = None /\ com_sum = None
    /\ bytes = <<>> /\ fr_in = NoFr /\ fr_out = None
    /\ poly = <<>> /\ orig = <<>> /\ hist = <<>> /\ val = None
    /\ lfs_scale = NoScale /\ lfs = None /\ ffs_scale = NoScale /\ ffs = None
    /\ div_self = <<>> /\ div_x = <<>> /\ div_out = None

CommitToPoly(pp) ==
    /\ pc = "ready"
    /\ pc' = "committed"
    /\ p' = pp
    /\ com' = commit_to_poly(ks, pp)
    /\ UNCHANGED <<ks, x, n, ys, y, proof, verdict, p2, com2, com_sum, frVars, polyVars, fftVars, divVars>>

\* a second commitment, the first one kept in p2, com2
CommitAgain(pp) ==
    /\ pc = "committed"
    /\ pc' = "committed_two"
    /\ p2' = p /\ com2' = com
    /\ p' = pp
    /\ com' = commit_to_poly(ks, pp)
    /\ UNCHANGED <<ks, x, n, ys, y, proof, verdict, com_sum, frVars, polyVars, fftVars, divVars>>

\* the coefficient-wise sum of two polynomials of equal length
PolySum(a, b) == [i \in 1..Len(a) |-> ArkFr_add(a[i], b[i])]

\* the commitment of the sum of the two polynomials committed
CommitSum ==
    /\ pc = "committed_two"
    /\ Len(p) = Len(p2)
    /\ pc' = "committed_sum"
    /\ com_sum' = commit_to_poly(ks, PolySum(p, p2))
    /\ UNCHANGED <<ks, p, x, n, ys, y, com, proof, verdict, p2, com2, frVars, polyVars, fftVars, divVars>>

ComputeProofSingle(xx) ==
    /\ pc = "committed"
    /\ pc' = "proved_single"
    /\ x' = xx
    /\ proof' = compute_proof_single(ks, p, xx)
    /\ UNCHANGED <<ks, p, n, ys, y, com, verdict, p2, com2, com_sum, frVars, polyVars, fftVars, divVars>>

CheckProofSingle(yy) ==
    /\ pc = "proved_single"
    /\ IsOk(com) /\ IsOk(proof)
    /\ pc' = "checked_single"
    /\ y' = yy
    /\ verdict' = check_proof_single(ks, com.val, proof.val, x, yy)
    /\ UNCHANGED <<ks, p, x, n, ys, com, proof, p2, com2, com_sum, frVars, polyVars, fftVars, divVars>>

ComputeProofMulti(xx, nn) ==
    /\ pc = "committed"
    /\ pc' = "proved_multi"
    /\ x' = xx /\ n' = nn
    /\ proof' = compute_proof_multi(ks, p, xx, nn)
    /\ UNCHANGED <<ks, p, ys, y, com, verdict, p2, com2, com_sum, frVars, polyVars, fftVars, divVars>>

\* the points a caller passes on: the ones computed, or a default point
ComPoint == IF IsOk(com) THEN com.val ELSE ArkG1_default
ProofPoint == IF IsOk(proof) THEN proof.val ELSE ArkG1_default

CheckProofMulti(yys) ==
    /\ pc = "proved_multi"
    /\ pc' = "checked_multi"
    /\ ys' = yys
    /\ verdict' = check_proof_multi(ks, ComPoint, ProofPoint, x, yys, n)
    /\ UNCHANGED <<ks, p, x, n, y, com, proof, p2, com2, com_sum, frVars, polyVars, fftVars, divVars>>

\* the caller drops the scenario's values and starts again
Return ==
    /\ pc # "ready"
    /\ pc' = "ready"
    /\ p' = <<>> /\ x' = 0 /\ n' = 0 /\ ys' = <<>> /\ y' = 0
    /\ com' = None /\ proof' = None /\ verdict' = None
    /\ p2' = <<>> /\ com2' = None /\ com_sum' = None
    /\ bytes' = <<>> /\ fr_in' = NoFr /\ fr_out' = None
    /\ poly' = <<>> /\ orig' = <<>> /\ hist' = <<>> /\ val' = None
    /\ lfs_scale' = NoScale /\ lfs' = None /\ ffs_scale' = NoScale /\ ffs' = None
    /\ div_self' = <<>> /\ div_x' = <<>> /\ div_out' = None
    /\ UNCHANGED ks

NextSingle ==
    \/ \E pp \in Polys : CommitToPoly(pp)
    \/ \E xx \in FrSet : ComputeProofSingle(xx)
    \/ \E yy \in FrSet : CheckProofSingle(yy)
    \/ Return

SpecSingle == Init /\ [][NextSingle]_vars

NextMulti ==
    \/ \E pp \in Polys : CommitToPoly(pp)
    \/ \E xx \in MultiPoints, nn \in BatchSizes : ComputeProofMulti(xx, nn)
    \/ \E yys \in YsInputs(ks, p, x, n) : CheckProofMulti(yys)
    \/ Return

SpecMulti == Init /\ [][NextMulti]_vars

\* the multi-point calls on short polynomials, over more evaluation points
NextInterp ==
    \/ \E pp \in InterpPolys : CommitToPoly(pp)
    \/ \E xx \in InterpPoints, nn \in BatchSizes : ComputeProofMulti(xx, nn)
    \/ \E yys \in YsInputs(ks, p, x, n) : CheckProofMulti(yys)
    \/ Return

SpecInterp == Init /\ [][NextInterp]_vars

NextCommit ==
    \/ \E pp \in Polys : CommitToPoly(pp)
    \/ \E pp \in Polys : CommitAgain(pp)
    \/ CommitSum
    \/ Return

SpecCommit == Init /\ [][NextCommit]_vars

ToBytes(a) ==
    /\ pc = "ready"
    /\ pc' = "encoded"
    /\ fr_in' = a
    /\ bytes' = ArkFr_to_bytes(a)
    /\ UNCHANGED <<ks, kzgVars, fr_out, polyVars, fftVars, divVars>>

\* decodes the bytes to_bytes wrote, or bytes the caller brings
FromBytes(bs) ==
    /\ pc \in {"ready", "encoded"}
    /\ pc = "encoded" => bs = bytes
    /\ pc' = "decoded"
    /\ bytes' = bs
    /\ fr_out' = ArkFr_from_bytes(bs)
    /\ UNCHANGED <<ks, kzgVars, fr_in, polyVars, fftVars, divVars>>

NextBytes ==
    \/ \E a \in FrSet : ToBytes(a)
    \/ \E bs \in ByteStrings : FromBytes(bs)
    \/ Return

SpecBytes == Init /\ [][NextBytes]_vars

Eval(pp, xx) ==
    /\ pc = "ready"
    /\ pc' = "evaluated"
    /\ poly' = pp /\ orig' = pp
    /\ x' = xx
    /\ val' = Poly_eval(pp, xx)
    /\ UNCHANGED <<ks, p, n, ys, y, com, proof, verdict, p2, com2, com_sum, frVars, hist, fftVars, divVars>>

NextEval ==
    \/ \E pp \in Polys, xx \in FrSet : Eval(pp, xx)
    \/ Return

SpecEval == Init /\ [][NextEval]_vars

NewPoly(pp) ==
    /\ pc = "ready"
    /\ pc' = "poly"
    /\ poly' = pp /\ orig' = pp /\ hist' = <<>>
    /\ UNCHANGED <<ks, kzgVars, frVars, val, fftVars, divVars>>

Scale ==
    /\ pc = "poly"
    /\ Len(hist) < MaxOps
    /\ poly' = Poly_scale(poly)
    /\ hist' = Append(hist, "scale")
    /\ UNCHANGED <<pc, ks, kzgVars, frVars, orig, val, fftVars, divVars>>

Unscale ==
    /\ pc = "poly"
    /\ Len(hist) < MaxOps
    /\ poly' = Poly_unscale(poly)
    /\ hist' = Append(hist, "unscale")
    /\ UNCHANGED <<pc, ks, kzgVars, frVars, orig, val, fftVars, divVars>>

NextScale ==
    \/ \E pp \in Polys : NewPoly(pp)
    \/ Scale
    \/ Unscale
    \/ Return

SpecScale == Init /\ [][NextScale]_vars

\* the arkworks backend builds a domain of the scale k
NewLFFTSettings(k) ==
    /\ pc \in {"ready", "domain"}
    /\ pc' = "domain"
    /\ lfs_scale' = k
    /\ lfs' = LFFTSettings_new(k)
    /\ UNCHANGED <<ks, kzgVars, frVars, polyVars, ffs_scale, ffs, divVars>>

\* the from-scratch backend builds a domain of the scale k
NewFFTSettings(k) ==
    /\ pc \in {"ready", "domain"}
    /\ pc' = "domain"
    /\ ffs_scale' = k
    /\ ffs' = FFTSettings_new(k)
    /\ UNCHANGED <<ks, kzgVars, frVars, polyVars, lfs_scale, lfs, divVars>>

NextFft ==
    \/ \E k \in Scales : NewLFFTSettings(k)
    \/ \E k \in Scales : NewFFTSettings(k)
    \/ Return

SpecFft == Init /\ [][NextFft]_vars

\* a.div(&b)
Div(a, b) ==
    /\ pc = "ready"
    /\ pc' = "divided"
    /\ div_self' = a /\ div_x' = b
    /\ div_out' = PolyData_div(a, b)
    /\ UNCHANGED <<ks, kzgVars, frVars, polyVars, fftVars>>

NextDiv ==
    \/ \E a \in DivPolys, b \in DivPolys : Div(a, b)
    \/ Return

SpecDiv == Init /\ [][NextDiv]_vars

Next ==
    \/ \E pp \in Polys : CommitToPoly(pp)
    \/ \E pp \in Polys : CommitAgain(pp)
    \/ CommitSum
    \/ \E xx \in FrSet : ComputeProofSingle(xx)
    \/ \E yy \in FrSet : CheckProofSingle(yy)
    \/ \E xx \in MultiPoints, nn \in BatchSizes : ComputeProofMulti(xx, nn)
    \/ \E yys \in YsInputs(ks, p, x, n) : CheckProofMulti(yys)
    \/ \E a \in FrSet : ToBytes(a)
    \/ \E bs \in ByteStrings : FromBytes(bs)
    \/ \E pp \in Polys, xx \in FrSet : Eval(pp, xx)
    \/ \E pp \in Polys : NewPoly(pp)
    \/ Scale
    \/ Unscale
    \/ \E k \in Scales : NewLFFTSettings(k)
    \/ \E k \in Scales : NewFFTSettings(k)
    \/ \E a \in DivPolys, b \in DivPolys : Div(a, b)
    \/ Return

Spec == Init /\ [][Next]_vars

-----------------------------------------------------------------------------
(* C1: single-point end to end.  For every polynomial p with               *)
(* 1 <= len(p) <= len(secret_g1) and every x, commit_to_poly(p) and        *)
(* compute_proof_single(p, x) succeed, and check_proof_single on their     *)
(* results returns true for y = p.eval(x) and false for every other y.     *)
SinglePointEndToEnd ==
    /\ (pc = "proved_single" /\ Len(p) >= 1 /\ Len(p) <= Len(ks.secret_g1))
            => IsOk(com) /\ IsOk(proof)
    /\ pc = "checked_single" => verdict = Ok(y = eval_poly(p, x))

SinglePointWitness ==
    /\ pc = "checked_single"
    /\ Len(p) = Len(ks.secret_g1) /\ p[Len(p)] # 0 /\ x # 0
    /\ y = eval_poly(p, x) /\ verdict = Ok(TRUE)

-----------------------------------------------------------------------------
(* C2: multi-point end to end.  For every power of two n the settings      *)
(* support, every polynomial p with 1 <= len(p) <= len(secret_g1) and      *)
(* every x, compute_proof_multi(p, x, n) succeeds and check_proof_multi    *)
(* returns true on ys[i] = p.eval(x * w^i) and false when a single ys[i]   *)
(* is replaced by a different field element.                               *)
MultiSupported ==
    /\ is_power_of_two(n)
    /\ n <= ks.fs.max_width
    /\ n < Len(ks.secret_g2)
    /\ Len(p) >= 1 /\ Len(p) <= Len(ks.secret_g1)

MultiPointEndToEnd ==
    (pc = "checked_multi" /\ MultiSupported) =>
        /\ IsOk(com) /\ IsOk(proof)
        /\ ys = coset_evals(ks, p, x, n) => verdict = Ok(TRUE)
        /\ ys \in Perturbed(coset_evals(ks, p, x, n)) => verdict = Ok(FALSE)

(* C3 as claimed: both multi-point calls return a DomainError for every n  *)
(* that is not a power of two, whatever the other arguments are, an empty  *)
(* p included.                                                             *)
MultiRejectsBadNAlways ==
    /\ (pc \in {"proved_multi", "checked_multi"} /\ ~is_power_of_two(n))
            => IsDomainError(proof)
    /\ (pc = "checked_multi" /\ ~is_power_of_two(n)) => IsDomainError(verdict)

(* C3 as amended: check_proof_multi returns a DomainError for every n that *)
(* is not a power of two, whatever the other arguments are;                *)
(* compute_proof_multi does so for every non-empty p, and returns the      *)
(* EmptyInputError for an empty p, whatever n is.                          *)
MultiRejectsBadN ==
    /\ (pc \in {"proved_multi", "checked_multi"} /\ ~is_power_of_two(n) /\ Len(p) > 0)
            => IsDomainError(proof)
    /\ (pc \in {"proved_multi", "checked_multi"} /\ Len(p) = 0)
            => IsEmptyInputError(proof)
    /\ (pc = "checked_multi" /\ ~is_power_of_two(n)) => IsDomainError(verdict)

MultiRejectsBadNWitness ==
    /\ pc = "checked_multi"
    /\ n = 3 /\ Len(p) = 2 /\ Len(ys) = 2
    /\ IsDomainError(proof) /\ IsDomainError(verdict)

(* C5: every call ends with a result value or an explicit error result     *)
(* returned to the caller; no call aborts.                                 *)
NoCallAborts ==
    /\ ~IsPanic(com)
    /\ ~IsPanic(proof)
    /\ ~IsPanic(verdict)

(* C4: commit_to_poly(p) fails with the LengthError exactly when            *)
(* len(p) > len(secret_g1); otherwise, the empty polynomial and one that   *)
(* fills the SRS included, it returns the sum over i < len(p) of           *)
(* coeffs[i] * secret_g1[i].                                               *)
CommitValue(self, coeffs) ==
    SumTo([i \in 1..Len(coeffs) |-> (coeffs[i] * self.secret_g1[i]) % Modulus],
          Len(coeffs))

CommitLengthCheck ==
    pc \in {"committed", "committed_two"} =>
        IF Len(p) > Len(ks.secret_g1)
        THEN IsLengthError(com)
        ELSE com = Ok(CommitValue(ks, p))

CommitLengthWitness ==
    /\ pc = "committed"
    /\ Len(p) = Len(ks.secret_g1) /\ p[Len(p)] # 0
    /\ IsOk(com) /\ com.val # G1_IDENTITY

(* C9: the commitment is additively homomorphic.  For p, q of equal length *)
(* at most len(secret_g1), the three commitments succeed and               *)
(* commit_to_poly(p) + commit_to_poly(q) = commit_to_poly(p + q).          *)
CommitHomomorphic ==
    (pc = "committed_sum" /\ Len(p) <= Len(ks.secret_g1)) =>
        /\ IsOk(com) /\ IsOk(com2) /\ IsOk(com_sum)
        /\ ArkG1_add(com.val, com2.val) = com_sum.val

CommitHomomorphicWitness ==
    /\ pc = "committed_sum"
    /\ Len(p) = Len(ks.secret_g1) /\ p # p2
    /\ IsOk(com) /\ IsOk(com2) /\ IsOk(com_sum)
    /\ com.val # G1_IDENTITY /\ com2.val # G1_IDENTITY
    /\ com_sum.val = ArkG1_add(com.val, com2.val)

(* C6: Poly::eval(x) returns the sum over i of coeffs[i] * x^i for every   *)
(* polynomial of every length and every x, zero included: zero for the     *)
(* empty polynomial, coeffs[0] for a polynomial of one coefficient.        *)
PolyValue(coeffs, xx) ==
    SumTo([i \in 1..Len(coeffs) |-> (coeffs[i] * FieldPow(xx, i - 1)) % Modulus],
          Len(coeffs))

EvalIsPolynomialValue ==
    pc = "evaluated" => val = Ok(PolyValue(poly, x))

(* C7: from_bytes returns an error when the length is not                  *)
(* BYTES_PER_FIELD_ELEMENT, and on that many bytes exactly when the        *)
(* big-endian integer decoded is >= the modulus; what it accepts is the    *)
(* element of that integer.  bigint_check_mod_256(a) is true exactly when  *)
(* the integer of the limbs a is below the modulus.                        *)
FromBytesRejectsNonCanonical ==
    pc = "decoded" =>
        /\ IsErr(fr_out) <=>
              \/ Len(bytes) # BYTES_PER_FIELD_ELEMENT
              \/ be_value(bytes, BYTE_BASE) >= Modulus
        /\ IsOk(fr_out) => fr_out.val = be_value(bytes, BYTE_BASE)
        /\ Len(bytes) = BYTES_PER_FIELD_ELEMENT =>
              (bigint_check_mod_256(from_bytes_storage(bytes))
                  <=> bigint_value(from_bytes_storage(bytes)) < Modulus)

FromBytesWitness ==
    /\ pc = "decoded" /\ fr_in = NoFr
    /\ Len(bytes) = BYTES_PER_FIELD_ELEMENT
    /\ be_value(bytes, BYTE_BASE) = Modulus
    /\ IsErr(fr_out)

(* C8: for every field element a, from_bytes(to_bytes(a)) succeeds and     *)
(* equals a; to_bytes writes BYTES_PER_FIELD_ELEMENT big-endian bytes.     *)
BytesRoundTrip ==
    /\ pc = "encoded" =>
          /\ Len(bytes) = BYTES_PER_FIELD_ELEMENT
          /\ be_value(bytes, BYTE_BASE) = fr_in
    /\ (pc = "decoded" /\ fr_in # NoFr) => fr_out = Ok(fr_in)

BytesRoundTripWitness ==
    /\ pc = "decoded"
    /\ fr_in = Modulus - 1
    /\ fr_out = Ok(fr_in)

(* C10: scale then unscale, and unscale then scale, leave every            *)
(* coefficient of the polynomial at its original value: whenever as many   *)
(* scale as unscale calls were made, the coefficients are the original.    *)
Count(s, v) == Cardinality({i \in 1..Len(s) : s[i] = v})

ScaleUnscaleIdentity ==
    (pc = "poly" /\ Count(hist, "scale") = Count(hist, "unscale")) => poly = orig

ScaleUnscaleWitness ==
    /\ pc = "poly"
    /\ hist = <<"scale", "unscale">>
    /\ Len(poly) = MaxLen /\ poly[1] # 0 /\ poly[MaxLen] # 0
    /\ poly = orig

-----------------------------------------------------------------------------
(* C11: FFT settings construction.  In both backends new(scale) returns an *)
(* error for every scale at or beyond the length of the root-of-unity      *)
(* table, the scale one past the largest entry included, and for every     *)
(* scale k below it returns a domain with max_width = 2^k whose            *)
(* root_of_unity satisfies root^(2^k) = 1 and, for k >= 1,                 *)
(* root^(2^(k-1)) # 1.                                                     *)

DomainOfScale(r, k) ==
    /\ IsOk(r)
    /\ r.val.max_width = Pow2(k)
    /\ FieldPow(r.val.root_of_unity, Pow2(k)) = 1
    /\ k >= 1 => FieldPow(r.val.root_of_unity, Pow2(k - 1)) # 1

ScaleChecked(r, k) ==
    IF k >= Len(SCALE2_ROOT_OF_UNITY) THEN IsErr(r) ELSE DomainOfScale(r, k)

FFTSettingsNewChecksScale ==
    /\ lfs_scale # NoScale => ScaleChecked(lfs, lfs_scale)
    /\ ffs_scale # NoScale => ScaleChecked(ffs, ffs_scale)

\* both backends were given the scale one past the table and the largest
\* scale in it
FFTSettingsNewWitness ==
    /\ pc = "domain"
    /\ lfs_scale = Len(SCALE2_ROOT_OF_UNITY) /\ IsErr(lfs)
    /\ ffs_scale = Len(SCALE2_ROOT_OF_UNITY) - 1 /\ IsOk(ffs)
    /\ ffs.val.max_width = Pow2(Len(SCALE2_ROOT_OF_UNITY) - 1)

-----------------------------------------------------------------------------
(* C12: Poly::scale multiplies coefficient i by factor^i and Poly::unscale *)
(* multiplies coefficient i by factor^-i, for every index i, where factor  *)
(* is the scale constant (in either direction: the constant or its         *)
(* inverse); in particular both leave coefficient 0 unchanged.             *)

ScaleFactors ==
    {Fr_from_u64(SCALE_FACTOR), Fr_inverse(Fr_from_u64(SCALE_FACTOR))}

\* coeffs is from with coefficient i multiplied by f^i
MultipliedByPowers(coeffs, from, f) ==
    /\ Len(coeffs) = Len(from)
    /\ \A i \in 0..(Len(from) - 1) :
            At(coeffs, i) = Fr_mul(At(from, i), FieldPow(f, i))

ScaleMultipliesByFactorPowers ==
    \E f \in ScaleFactors :
        /\ (pc = "poly" /\ hist = <<"scale">>)
                => MultipliedByPowers(poly, orig, f)
        /\ (pc = "poly" /\ hist = <<"unscale">>)
                => MultipliedByPowers(poly, orig, Fr_inverse(f))

-----------------------------------------------------------------------------
(* C13: the quotient of compute_proof_single.  For every non-empty         *)
(* polynomial p and every x, the quotient q that compute_proof_single      *)
(* commits has len(p) - 1 coefficients and satisfies                       *)
(* q(X) * (X - x) = p(X) - p(x) as polynomials; for an empty p the call    *)
(* fails with the EmptyInputError.                                         *)

\* the coefficients of q(X) * (X - xx)
TimesLinear(q, xx) ==
    [i \in 1..(Len(q) + 1) |->
        ArkFr_sub(IF i = 1 THEN ArkFr_zero ELSE q[i - 1],
                  IF i = Len(q) + 1 THEN ArkFr_zero ELSE ArkFr_mul(xx, q[i]))]

\* the coefficients of p(X) - p(xx)
MinusValue(coeffs, xx) ==
    [coeffs EXCEPT ![1] = ArkFr_sub(coeffs[1], PolyValue(coeffs, xx))]

SingleQuotientDivides ==
    pc = "proved_single" =>
        IF Len(p) = 0 THEN IsEmptyInputError(proof)
        ELSE
            LET q == single_quotient(p, x)
            IN  /\ Len(q) = Len(p) - 1
                /\ TimesLinear(q, x) = MinusValue(p, x)
                /\ proof = commit_to_poly(ks, q)

\* a polynomial of degree at least two with p(x) nonzero was divided
SingleQuotientWitness ==
    /\ pc = "proved_single"
    /\ Len(p) >= 3 /\ p[Len(p)] # 0 /\ x # 0
    /\ PolyValue(p, x) # 0
    /\ IsOk(proof)

-----------------------------------------------------------------------------
(* C14: the interpolation of check_proof_multi.  For every power of two    *)
(* n >= 1 and nonzero x, in a call that reaches the pairing check, the     *)
(* interpolation polynomial is the inverse FFT of ys with coefficient i    *)
(* multiplied by x^(-i) for every i < n (coefficient 0 unchanged), and the *)
(* value multiplied into the G2 generator is x^n, so that the second       *)
(* pairing argument is secret_g2[n] - [x^n]_2; for n = 1 too, where the    *)
(* loop body never runs.  The verdict is the pairing check on these.       *)

\* xx^(-i), for xx nonzero
InversePower(xx, i) == CHOOSE b \in FrSet : (b * FieldPow(xx, i)) % Modulus = 1

\* the inverse FFT of vals with coefficient i < nn multiplied by xx^(-i)
Unshifted(self, xx, vals, nn) ==
    LET ifft == fft_fr(self.fs, vals, TRUE).val
    IN  [i \in 1..Len(ifft) |->
            IF i - 1 < nn
            THEN (ifft[i] * InversePower(xx, i - 1)) % Modulus
            ELSE ifft[i]]

\* [s^nn - xx^nn]_2
SecretMinusPower(self, xx, nn) ==
    (At(self.secret_g2, nn) + Modulus - FieldPow(xx, nn)) % Modulus

MultiReachesPairing ==
    /\ pc = "checked_multi"
    /\ is_power_of_two(n) /\ x # 0
    /\ IsOk(fft_fr(ks.fs, ys, TRUE)) /\ Len(ys) >= n
    /\ n < Len(ks.secret_g2)

MultiInterpolation ==
    MultiReachesPairing =>
        LET interp == Unshifted(ks, x, ys, n)
        IN  /\ check_proof_multi_interp(ks, x, ys, n).coeffs = interp
            /\ check_proof_multi_x_pow(ks, x, ys, n) = FieldPow(x, n)
            /\ check_proof_multi_xn_minus_yn(ks, x, ys, n)
                    = SecretMinusPower(ks, x, n)
            /\ Len(interp) <= Len(ks.secret_g1) =>
                    verdict = Ok(pairings_verify(
                                    ArkG1_sub(ComPoint, CommitValue(ks, interp)),
                                    G2_GENERATOR, ProofPoint,
                                    SecretMinusPower(ks, x, n)))

\* a batch of two values at a point other than 0, 1 and -1, with a nonzero
\* coefficient to un-shift
MultiInterpolationWitness ==
    /\ MultiReachesPairing
    /\ n = 2 /\ Len(ys) = 2
    /\ x \notin {1, Modulus - 1}
    /\ At(fft_fr(ks.fs, ys, TRUE).val, 1) # 0
    /\ IsOk(verdict)

-----------------------------------------------------------------------------
(* C15: the dispatch of PolyData::div.  div(dividend, divisor) uses        *)
(* long_div exactly when len(divisor) >= len(dividend) or len(divisor) <   *)
(* 128, and fast_div in every other case; the result of the chosen         *)
(* routine, a DivisionError included, is returned unchanged.               *)

DivUsesLong == Len(div_x) >= Len(div_self) \/ Len(div_x) < 128

DivDispatch ==
    pc = "divided" =>
        IF DivUsesLong
        THEN /\ PolyData_div_callee(div_self, div_x) = "poly_long_div"
             /\ div_out = poly_long_div(div_self, div_x)
        ELSE /\ PolyData_div_callee(div_self, div_x) = "poly_fast_div"
             /\ div_out = poly_fast_div(div_self, div_x)

\* a divisor of exactly 128 coefficients under a longer dividend: the
\* shortest divisor that goes to fast_div
DivDispatchWitness ==
    /\ pc = "divided"
    /\ Len(div_x) = 128 /\ Len(div_self) > 128
    /\ PolyData_div_callee(div_self, div_x) = "poly_fast_div"
    /\ IsOk(div_out) /\ Len(div_out.val) = Len(div_self) - Len(div_x) + 1

====
